---- MODULE Spec2Model ----
(***************************************************************************)
(* A model of htmlcreator's HTMLDocument (src/htmlcreator/document.py).    *)
(*                                                                         *)
(* Text is modelled as a sequence of tokens: a Python str built by an      *)
(* f-string is the sequence of its literal pieces and formatted arguments, *)
(* and += is \o.  Python values of several types are tagged records.       *)
(***************************************************************************)
EXTENDS Integers, Sequences, FiniteSets, TLC

\* Bound on the number of method calls made on the document in a behaviour.
MaxCalls == 3

\* Bound on the number of calls in the image-tag specification SpecImg.
MaxImgCalls == 1

---------------------------------------------------------------------------
\* Python values.

None == [t |-> "NoneType"]

PyStr(s) == [t |-> "str", s |-> s]

PyInt(n) == [t |-> "int", n |-> n]

PyBool(b) == [t |-> "bool", b |-> b]

PyPath(p) == [t |-> "Path", p |-> p]

\* bool(x): the truth value the `if x:` tests of _add_image_tag use.
Truthy(x) ==
    CASE x.t = "NoneType" -> FALSE
      [] x.t = "str" -> x.s # ""
      [] x.t = "int" -> x.n # 0
      [] x.t = "bool" -> x.b
      [] OTHER -> TRUE

\* format(x, ''): what an f-string replacement field {x} produces.
Format(x) ==
    CASE x.t = "NoneType" -> "None"
      [] x.t = "str" -> x.s
      [] x.t = "int" -> ToString(x.n)
      [] x.t = "bool" -> IF x.b THEN "True" ELSE "False"
      [] x.t = "Path" -> x.p
      [] OTHER -> "<object>"

---------------------------------------------------------------------------
\* The state of one HTMLDocument and what its caller observes.

VARIABLES
    style,                  \* self.style
    title,                  \* self.title
    head,                   \* self.head
    body,                   \* self.body
    _is_plotlyjs_included,   \* self._is_plotlyjs_included
    call,                   \* the last method call: its name and arguments
    raised,                 \* the exception class the last call raised, or "none"
    pre,                    \* the document's attributes before the last call
    fragments,              \* the fragments the successful append calls built, in call order
    plotly_log,             \* every add_plotly_figure call: arguments, mode passed to to_html
    out,                    \* the value the last str(self) returned
    out_of,                 \* title, style, head, body when it was returned
    file,                   \* the content of the file write() opens
    title_set,              \* the argument of the last set_title call, or the default
    n_calls                 \* the number of calls made so far

vars == <<style, title, head, body, _is_plotlyjs_included, call, raised, pre,
          fragments, plotly_log, out, out_of, file, title_set, n_calls>>

\* The attributes __init__ creates.
Doc ==
    [style |-> style, title |-> title, head |-> head, body |-> body,
     _is_plotlyjs_included |-> _is_plotlyjs_included]

\* Content of the bundled style.css that _set_default_style reads.
default_style == "body { font-family: sans-serif; }\n"

\* What every call records: the call, its outcome and the attributes before it.
Called(c, exc) ==
    /\ n_calls < MaxCalls
    /\ call' = c
    /\ raised' = exc
    /\ pre' = Doc
    /\ n_calls' = n_calls + 1

\* A call that raised before touching any attribute.
Raise(c, exc) ==
    /\ Called(c, exc)
    /\ UNCHANGED <<style, title, head, body, _is_plotlyjs_included,
                   fragments, plotly_log, out, out_of, file, title_set>>

\* self.body += fragment
BodyAdd(fragment) ==
    /\ body' = body \o fragment
    /\ fragments' = Append(fragments, fragment)

---------------------------------------------------------------------------
\* The collaborators and the file system, as the code uses them.

\* The files open() can read, with their bytes; any other path raises OSError.
files == [p \in {"img.png", "photo.jpg"} |->
            IF p = "img.png" THEN "PNG(img.png)" ELSE "JPEG(photo.jpg)"]

\* The paths open(filepath, 'w') can create.
writable == {"out.html"}

\* base64.b64encode(data).decode('utf-8')
b64encode(data) == "base64(" \o data \o ")"

\* Image.fromarray(image).save(buff, format='PNG') and image.save(buff, format='PNG'):
\* the PNG bytes in buff.
png_bytes(image) ==
    IF image.t = "ndarray"
    THEN "PNG(ndarray ndim=" \o ToString(image.ndim) \o ")"
    ELSE "PNG(PIL.Image)"

\* plotly.io.to_html(fig, full_html=False, include_plotlyjs=mode): the runtime script
\* the mode asks for, then the figure's own markup.
to_html(fig, mode) ==
    ( IF mode = PyBool(TRUE) THEN <<"<script>/* plotly.js */</script>">>
      ELSE IF mode = PyStr("cdn")
           THEN <<"<script src=\"https://cdn.plot.ly/plotly.min.js\"></script>">>
           ELSE <<>> )
    \o <<fig.div>>

---------------------------------------------------------------------------
\* HTMLDocument's methods.

\* __str__ had it added a note once the plotly runtime is included.
__str___noting_runtime ==
    <<"<!DOCTYPE html>\n",
      "<html lang=\"en\">\n",
      "<head>\n",
      "<meta charset=\"UTF-8\">\n",
      "<title>", title, "</title>\n",
      "<style type=\"text/css\">\n", style, "</style>\n">>
    \o head
    \o (IF _is_plotlyjs_included THEN <<"<!-- plotly.js included -->\n">> ELSE <<>>)
    \o <<"</head>\n",
         "<body>\n">>
    \o body
    \o <<"</body>\n",
         "</html>\n">>

\* The f-string __str__ returns, over the attributes it reads.
__str__ ==
    <<"<!DOCTYPE html>\n",
      "<html lang=\"en\">\n",
      "<head>\n",
      "<meta charset=\"UTF-8\">\n",
      "<title>", title, "</title>\n",
      "<style type=\"text/css\">\n", style, "</style>\n">>
    \o head
    \o <<"</head>\n",
         "<body>\n">>
    \o body
    \o <<"</body>\n",
         "</html>\n">>

\* str(self), called by the user.
str_self ==
    /\ Called([op |-> "__str__"], "none")
    /\ out' = __str__
    /\ out_of' = [title |-> title, style |-> style, head |-> head, body |-> body]
    /\ UNCHANGED <<style, title, head, body, _is_plotlyjs_included,
                   fragments, plotly_log, file, title_set>>

add_header(header, level, align) ==
    /\ Called([op |-> "add_header", header |-> header, level |-> level,
               align |-> align], "none")
    /\ BodyAdd(<<"<", level, " style=\"text-align: ", align, "\">",
                 header,
                 "</", level, ">\n">>)
    /\ UNCHANGED <<style, title, head, _is_plotlyjs_included, plotly_log,
                   out, out_of, file, title_set>>

\* add_text had it put its paragraph before the existing body.
add_text_prepending(text, size, indent, align) ==
    LET fragment == <<"<p style=\"font-size:", size, "; text-indent: ", indent,
                      "; text-align: ", align, "\">",
                      text,
                      "</p>\n">>
    IN
    /\ Called([op |-> "add_text", text |-> text, size |-> size,
               indent |-> indent, align |-> align], "none")
    /\ body' = fragment \o body
    /\ fragments' = Append(fragments, fragment)
    /\ UNCHANGED <<style, title, head, _is_plotlyjs_included, plotly_log,
                   out, out_of, file, title_set>>

add_text(text, size, indent, align) ==
    /\ Called([op |-> "add_text", text |-> text, size |-> size,
               indent |-> indent, align |-> align], "none")
    /\ BodyAdd(<<"<p style=\"font-size:", size, "; text-indent: ", indent,
                 "; text-align: ", align, "\">",
                 text,
                 "</p>\n">>)
    /\ UNCHANGED <<style, title, head, _is_plotlyjs_included, plotly_log,
                   out, out_of, file, title_set>>

\* add_line_break had it assigned (=) where it appends (+=).
add_line_break_assigning ==
    /\ Called([op |-> "add_line_break"], "none")
    /\ body' = <<"<br>\n">>
    /\ fragments' = Append(fragments, <<"<br>\n">>)
    /\ UNCHANGED <<style, title, head, _is_plotlyjs_included, plotly_log,
                   out, out_of, file, title_set>>

add_line_break ==
    /\ Called([op |-> "add_line_break"], "none")
    /\ BodyAdd(<<"<br>\n">>)
    /\ UNCHANGED <<style, title, head, _is_plotlyjs_included, plotly_log,
                   out, out_of, file, title_set>>

add_page_break ==
    /\ Called([op |-> "add_page_break"], "none")
    /\ BodyAdd(<<"<p style=\"page-break-after: always;\">&nbsp;</p>\n">>)
    /\ UNCHANGED <<style, title, head, _is_plotlyjs_included, plotly_log,
                   out, out_of, file, title_set>>

\* df is a DataFrame (whose to_html() returns df.html or raises) or another value.
add_table(df) ==
    LET c == [op |-> "add_table", df |-> df] IN
    IF df.t # "DataFrame"
    THEN Raise(c, "TypeError")
    ELSE IF df.to_html_raises
    THEN Raise(c, "Exception")
    ELSE /\ Called(c, "none")
         /\ BodyAdd(<<"<div class=\"pandas-dataframe\">\n",
                      df.html, "\n",
                      "</div>\n">>)
         /\ UNCHANGED <<style, title, head, _is_plotlyjs_included, plotly_log,
                        out, out_of, file, title_set>>

\* _encode_image had its ndim test let 1-dimensional arrays through (ndim <= 3).
_encode_image_ndim_upto_3(image) ==
    CASE image.t = "ndarray" ->
            IF image.dtype # "uint8"
            THEN [raised |-> "RuntimeError", value |-> ""]
            ELSE IF ~(image.ndim <= 3)
            THEN [raised |-> "RuntimeError", value |-> ""]
            ELSE IF ~image.encodable
            THEN [raised |-> "Exception", value |-> ""]
            ELSE [raised |-> "none", value |-> b64encode(png_bytes(image))]
      [] image.t = "PIL.Image" ->
            IF ~image.encodable
            THEN [raised |-> "Exception", value |-> ""]
            ELSE [raised |-> "none", value |-> b64encode(png_bytes(image))]
      [] image.t = "Path" ->
            IF image.p \notin DOMAIN files
            THEN [raised |-> "OSError", value |-> ""]
            ELSE [raised |-> "none", value |-> b64encode(files[image.p])]
      [] image.t = "str" ->
            IF image.s \notin DOMAIN files
            THEN [raised |-> "OSError", value |-> ""]
            ELSE [raised |-> "none", value |-> b64encode(files[image.s])]
      [] OTHER -> [raised |-> "TypeError", value |-> ""]

\* The exception _encode_image raises for image ("none" when it returns) and the
\* string it returns.
_encode_image(image) ==
    CASE image.t = "ndarray" ->
            IF image.dtype # "uint8"
            THEN [raised |-> "RuntimeError", value |-> ""]
            ELSE IF ~(image.ndim = 2 \/ image.ndim = 3)
            THEN [raised |-> "RuntimeError", value |-> ""]
            ELSE IF ~image.encodable
            THEN [raised |-> "Exception", value |-> ""]
            ELSE [raised |-> "none", value |-> b64encode(png_bytes(image))]
      [] image.t = "PIL.Image" ->
            IF ~image.encodable
            THEN [raised |-> "Exception", value |-> ""]
            ELSE [raised |-> "none", value |-> b64encode(png_bytes(image))]
      [] image.t = "Path" ->
            IF image.p \notin DOMAIN files
            THEN [raised |-> "OSError", value |-> ""]
            ELSE [raised |-> "none", value |-> b64encode(files[image.p])]
      [] image.t = "str" ->
            IF image.s \notin DOMAIN files
            THEN [raised |-> "OSError", value |-> ""]
            ELSE [raised |-> "none", value |-> b64encode(files[image.s])]
      [] OTHER -> [raised |-> "TypeError", value |-> ""]

\* image_tag had it tested `title is not None` where it tests `title`.
image_tag_is_not_none(src, title_, height, width, pixelated) ==
    <<"<img src=\"", src, "\"">>
    \o (IF title_ # None THEN <<" title=\"", Format(title_), "\"">> ELSE <<>>)
    \o (IF Truthy(height) THEN <<" height=", Format(height)>> ELSE <<>>)
    \o (IF Truthy(width) THEN <<" width=", Format(width)>> ELSE <<>>)
    \o <<" style=\"border:1px solid #021a40; margin: 3px 3px">>
    \o (IF pixelated THEN <<"; image-rendering: pixelated">> ELSE <<>>)
    \o <<"\">\n">>

\* The local image_tag that _add_image_tag builds.
image_tag(src, title_, height, width, pixelated) ==
    <<"<img src=\"", src, "\"">>
    \o (IF Truthy(title_) THEN <<" title=\"", Format(title_), "\"">> ELSE <<>>)
    \o (IF Truthy(height) THEN <<" height=", Format(height)>> ELSE <<>>)
    \o (IF Truthy(width) THEN <<" width=", Format(width)>> ELSE <<>>)
    \o <<" style=\"border:1px solid #021a40; margin: 3px 3px">>
    \o (IF pixelated THEN <<"; image-rendering: pixelated">> ELSE <<>>)
    \o <<"\">\n">>

_add_image_tag(src, title_, height, width, pixelated) ==
    BodyAdd(image_tag(src, title_, height, width, pixelated))

add_image(image, title_, height, width, pixelated) ==
    LET c == [op |-> "add_image", image |-> image, title |-> title_,
              height |-> height, width |-> width, pixelated |-> pixelated]
        encoded == _encode_image(image)
    IN
    IF encoded.raised # "none"
    THEN Raise(c, encoded.raised)
    ELSE /\ Called(c, "none")
         /\ _add_image_tag("data:image/png;base64, " \o encoded.value,
                           title_, height, width, pixelated)
         /\ UNCHANGED <<style, title, head, _is_plotlyjs_included, plotly_log,
                        out, out_of, file, title_set>>

\* add_image_link had it taken str(image_link) of any value, with no else branch.
add_image_link_any_type(image_link, title_, height, width, pixelated) ==
    /\ Called([op |-> "add_image_link", image |-> image_link, title |-> title_,
               height |-> height, width |-> width, pixelated |-> pixelated],
              "none")
    /\ _add_image_tag(Format(image_link), title_, height, width, pixelated)
    /\ UNCHANGED <<style, title, head, _is_plotlyjs_included, plotly_log,
                   out, out_of, file, title_set>>

add_image_link(image_link, title_, height, width, pixelated) ==
    LET c == [op |-> "add_image_link", image |-> image_link, title |-> title_,
              height |-> height, width |-> width, pixelated |-> pixelated]
    IN
    IF image_link.t \notin {"Path", "str"}
    THEN Raise(c, "TypeError")
    ELSE /\ Called(c, "none")
         /\ _add_image_tag(IF image_link.t = "Path" THEN image_link.p
                           ELSE image_link.s,
                           title_, height, width, pixelated)
         /\ UNCHANGED <<style, title, head, _is_plotlyjs_included, plotly_log,
                        out, out_of, file, title_set>>

\* The mode had add_plotly_figure not looked at self._is_plotlyjs_included.
include_plotlyjs_passed_unguarded(included, include_plotlyjs) ==
    IF include_plotlyjs THEN PyBool(TRUE) ELSE PyStr("cdn")

\* The value of include_plotlyjs that add_plotly_figure passes to plotly.io.to_html,
\* from self._is_plotlyjs_included and the argument.
include_plotlyjs_passed(included, include_plotlyjs) ==
    IF included THEN PyBool(FALSE)
    ELSE IF include_plotlyjs THEN PyBool(TRUE)
    ELSE PyStr("cdn")

\* The flag had add_plotly_figure never set it.
included_after_never_set(included, include_plotlyjs) == included

\* The flag had add_plotly_figure set it in the 'cdn' branch too.
included_after_set_on_cdn(included, include_plotlyjs) ==
    IF included THEN included ELSE TRUE

\* self._is_plotlyjs_included after the same if/elif/else.
included_after(included, include_plotlyjs) ==
    IF included THEN included
    ELSE IF include_plotlyjs THEN TRUE
    ELSE included

\* fig is a Figure (for which to_html returns markup or raises) or another value.
add_plotly_figure(fig, include_plotlyjs) ==
    LET c == [op |-> "add_plotly_figure", fig |-> fig,
              include_plotlyjs |-> include_plotlyjs]
        mode == include_plotlyjs_passed(_is_plotlyjs_included, include_plotlyjs)
        after == included_after(_is_plotlyjs_included, include_plotlyjs)
        entry == [is_figure |-> fig.t = "Figure",
                  include_plotlyjs |-> include_plotlyjs,
                  included_before |-> _is_plotlyjs_included,
                  included_after |-> IF fig.t = "Figure" THEN after
                                     ELSE _is_plotlyjs_included,
                  passed |-> None]
    IN
    IF fig.t # "Figure"
    THEN /\ Called(c, "TypeError")
         /\ plotly_log' = Append(plotly_log, [entry EXCEPT !.passed = None])
         /\ UNCHANGED <<style, title, head, body, _is_plotlyjs_included,
                        fragments, out, out_of, file, title_set>>
    ELSE /\ _is_plotlyjs_included' = after
         /\ plotly_log' = Append(plotly_log, [entry EXCEPT !.passed = mode])
         /\ IF fig.to_html_raises
            THEN /\ Called(c, "Exception")
                 /\ UNCHANGED <<body, fragments>>
            ELSE /\ Called(c, "none")
                 /\ BodyAdd(<<"<div class=\"plotly-figure\">\n">>
                            \o to_html(fig, mode)
                            \o <<"\n", "</div>\n">>)
         /\ UNCHANGED <<style, title, head, out, out_of, file, title_set>>

set_style(style_) ==
    /\ Called([op |-> "set_style", style |-> style_], "none")
    /\ style' = style_
    /\ UNCHANGED <<title, head, body, _is_plotlyjs_included, fragments,
                   plotly_log, out, out_of, file, title_set>>

set_title(title_) ==
    /\ Called([op |-> "set_title", title |-> title_], "none")
    /\ title' = title_
    /\ title_set' = title_
    /\ UNCHANGED <<style, head, body, _is_plotlyjs_included, fragments,
                   plotly_log, out, out_of, file>>

write(filepath) ==
    LET c == [op |-> "write", filepath |-> filepath] IN
    IF filepath \notin writable
    THEN Raise(c, "OSError")
    ELSE /\ Called(c, "none")
         /\ file' = __str__
         /\ UNCHANGED <<style, title, head, body, _is_plotlyjs_included,
                        fragments, plotly_log, out, out_of, title_set>>

\* The document __init__ returns, before any call.
Init ==
    /\ style = default_style
    /\ title = "HTMLDocument"
    /\ head = <<>>
    /\ body = <<>>
    /\ _is_plotlyjs_included = FALSE
    /\ call = [op |-> "__init__"]
    /\ raised = "none"
    /\ pre = [style |-> default_style, title |-> "HTMLDocument", head |-> <<>>,
              body |-> <<>>, _is_plotlyjs_included |-> FALSE]
    /\ fragments = <<>>
    /\ plotly_log = <<>>
    /\ out = <<>>
    /\ out_of = None
    /\ file = <<>>
    /\ title_set = "HTMLDocument"
    /\ n_calls = 0

---------------------------------------------------------------------------
\* The arguments the callers pass.

Headers == {"Results"}

Levels == {"h2"}

Texts == {"done"}

Tables ==
    {[t |-> "DataFrame", html |-> "<table>1</table>", to_html_raises |-> FALSE],
     [t |-> "DataFrame", html |-> "", to_html_raises |-> TRUE],
     PyStr("not a table")}

Arrays ==
    [t : {"ndarray"}, dtype : {"uint8"}, ndim : 1..4, encodable : {TRUE}]
    \cup [t : {"ndarray"}, dtype : {"float64"}, ndim : {1, 3}, encodable : {TRUE}]
    \cup {[t |-> "ndarray", dtype |-> "uint8", ndim |-> 3, encodable |-> FALSE]}

Images ==
    Arrays
    \cup {[t |-> "PIL.Image", encodable |-> TRUE],
          PyPath("img.png"), PyPath("missing.png"),
          PyStr("photo.jpg"), PyInt(7)}

ImageLinks == {PyPath("img.png"), PyStr("http://host/img.png"), PyInt(7)}

Figures ==
    {[t |-> "Figure", div |-> "<div>chart</div>", to_html_raises |-> FALSE],
     [t |-> "Figure", div |-> "<div>unserializable</div>", to_html_raises |-> TRUE],
     PyStr("not a figure")}

Styles == {"p { margin: 0; }\n"}

Titles == {"Report", "Draft"}

Filepaths == {"out.html", "/missing/out.html"}

\* title, height, width, pixelated: the defaults, and all four given.
Defaults == <<None, None, None, FALSE>>

AllGiven == <<PyStr("X"), PyInt(50), PyStr("50%"), TRUE>>

\* The add_image calls of Spec: every image with the defaults, one with all given.
ImageCalls ==
    (Images \X {Defaults})
    \cup {<<[t |-> "PIL.Image", encodable |-> TRUE], AllGiven>>}

\* The add_image_link calls of Spec.
ImageLinkCalls ==
    (ImageLinks \X {Defaults}) \cup {<<PyStr("http://host/img.png"), AllGiven>>}

\* title, height, width, pixelated of the image calls of SpecImg.
AllImageOptions ==
    {None, PyStr(""), PyStr("X")}
    \X {None, PyInt(0), PyInt(50), PyStr(""), PyStr("50%")}
    \X {None, PyInt(0), PyInt(50)}
    \X BOOLEAN

Next ==
    \/ str_self
    \/ \E h \in Headers, l \in Levels : add_header(h, l, "left")
    \/ \E x \in Texts : add_text(x, "16px", "0", "left")
    \/ add_line_break
    \/ add_page_break
    \/ \E df \in Tables : add_table(df)
    \/ \E c \in ImageCalls :
          add_image(c[1], c[2][1], c[2][2], c[2][3], c[2][4])
    \/ \E c \in ImageLinkCalls :
          add_image_link(c[1], c[2][1], c[2][2], c[2][3], c[2][4])
    \/ \E f \in Figures, b \in BOOLEAN : add_plotly_figure(f, b)
    \/ \E s \in Styles : set_style(s)
    \/ \E x \in Titles : set_title(x)
    \/ \E p \in Filepaths : write(p)

Spec == Init /\ [][Next]_vars

\* The image calls alone, over every combination of the optional arguments.
NextImg ==
    /\ n_calls < MaxImgCalls
    /\ \/ \E i \in {[t |-> "ndarray", dtype |-> "uint8", ndim |-> 3,
                     encodable |-> TRUE], PyStr("photo.jpg")},
             o \in AllImageOptions : add_image(i, o[1], o[2], o[3], o[4])
       \/ \E i \in {PyStr("http://host/img.png")}, o \in AllImageOptions :
             add_image_link(i, o[1], o[2], o[3], o[4])

SpecImg == Init /\ [][NextImg]_vars

---------------------------------------------------------------------------
\* Vocabulary of the properties.

\* The spec's error kinds, as the exception classes the code raises for them.
InvalidArgument == "TypeError"

InvalidShape == "RuntimeError"

AppendOps ==
    {"add_header", "add_text", "add_line_break", "add_page_break", "add_table",
     "add_image", "add_image_link", "add_plotly_figure"}

IsPrefix(a, b) == Len(a) <= Len(b) /\ SubSeq(b, 1, Len(a)) = a

RECURSIVE Flatten(_)
Flatten(ss) == IF ss = <<>> THEN <<>> ELSE Head(ss) \o Flatten(Tail(ss))

\* The positions of token tok in text, and how often it occurs.
Positions(text, tok) == {i \in DOMAIN text : text[i] = tok}

Count(text, tok) == Cardinality(Positions(text, tok))

\* The add_plotly_figure calls that reached plotly.io.to_html in inline mode.
InlineCalls == {i \in DOMAIN plotly_log : plotly_log[i].passed = PyBool(TRUE)}

\* The add_plotly_figure calls that asked for the runtime inline: all of them, and
\* those whose fig is a Figure.
Requesting == {i \in DOMAIN plotly_log : plotly_log[i].include_plotlyjs}

RequestingFigure == {i \in Requesting : plotly_log[i].is_figure}

RuntimeScript == "<script>/* plotly.js */</script>"

---------------------------------------------------------------------------
\* C1 as stated: over any sequence of add_plotly_figure calls, to_html is called
\* in inline mode at most once, that call is the first call of the sequence that
\* requested inline inclusion, and no later requesting call embeds the runtime.
C1_FirstRequestingCall ==
    /\ Cardinality(InlineCalls) <= 1
    /\ \A i \in InlineCalls : \A j \in Requesting : i <= j
    /\ \A i \in InlineCalls : \A j \in Requesting :
          j > i => plotly_log[j].passed # PyBool(TRUE)

\* C1 as amended: to_html is called in inline mode at most once, the runtime
\* script occurs at most once in body, the inline call is the first call that
\* requested inline inclusion with a fig that is a Figure, and every later such
\* call passes False (runtime omitted); a call whose fig is no Figure never
\* reaches to_html.
C1_RuntimeOnce ==
    /\ Cardinality(InlineCalls) <= 1
    /\ Count(body, RuntimeScript) <= 1
    /\ \A i \in RequestingFigure :
          IF \A j \in RequestingFigure : i <= j
          THEN plotly_log[i].passed = PyBool(TRUE)
          ELSE plotly_log[i].passed = PyBool(FALSE)
    /\ InlineCalls \subseteq RequestingFigure
    /\ \A i \in DOMAIN plotly_log :
          ~plotly_log[i].is_figure => plotly_log[i].passed = None

\* A call with no Figure requested the runtime first; the next requesting call
\* embedded it and the one after that did not.
C1_Witness ==
    /\ Len(plotly_log) = 3
    /\ ~plotly_log[1].is_figure /\ plotly_log[1].include_plotlyjs
    /\ plotly_log[2].passed = PyBool(TRUE)
    /\ plotly_log[3].include_plotlyjs /\ plotly_log[3].passed = PyBool(FALSE)
    /\ Count(body, RuntimeScript) = 1

\* C2: an append call that raises leaves every attribute of the document as it
\* was before the call.
C2_AllOrNothing ==
    (call.op \in AppendOps /\ raised # "none") => Doc = pre

\* C3: a successful append call leaves the previous body as a proper prefix of
\* the new body, with a non-empty fragment after it; every other call, and every
\* append call that raises, leaves body as it was.
C3_BodyOnlyGrows ==
    IF call.op \in AppendOps /\ raised = "none"
    THEN /\ IsPrefix(pre.body, body)
         /\ \E k \in (Len(pre.body) + 1)..Len(body) : body[k] # ""
    ELSE body = pre.body

\* An image was appended to a body that already held a fragment.
C3_Witness ==
    /\ call.op = "add_image" /\ raised = "none"
    /\ pre.body # <<>>
    /\ Len(body) > Len(pre.body)

\* C4: _is_plotlyjs_included is False after construction, no call sets it back
\* to False, at most one call of the document's life sets it, and a call made
\* while it is True passes False to to_html whatever was requested.
C4_IncludedOnce ==
    /\ n_calls = 0 => ~_is_plotlyjs_included
    /\ pre._is_plotlyjs_included => _is_plotlyjs_included
    /\ call.op # "add_plotly_figure" =>
          _is_plotlyjs_included = pre._is_plotlyjs_included
    /\ Cardinality({i \in DOMAIN plotly_log :
                      plotly_log[i].included_after
                        # plotly_log[i].included_before}) <= 1
    /\ \A i \in DOMAIN plotly_log :
          plotly_log[i].included_before =>
             /\ plotly_log[i].included_after
             /\ plotly_log[i].is_figure => plotly_log[i].passed = PyBool(FALSE)

\* The runtime is included and a later call that requested it inline passed False.
C4_Witness ==
    /\ call.op = "add_plotly_figure" /\ call.include_plotlyjs
    /\ call.fig.t = "Figure"
    /\ pre._is_plotlyjs_included /\ _is_plotlyjs_included
    /\ plotly_log[Len(plotly_log)].passed = PyBool(FALSE)

\* C5: str(self) changes no attribute, and whenever title, style, head and body
\* are what they were when str(self) last returned, str(self) is the string it
\* returned then, whatever was called in between and whatever
\* _is_plotlyjs_included is.
C5_StrIsPure ==
    /\ call.op = "__str__" => (raised = "none" /\ Doc = pre /\ out = __str__)
    /\ (out_of # None /\ out_of = [title |-> title, style |-> style,
                                   head |-> head, body |-> body])
          => __str__ = out

\* str(self) returned, then a call changed _is_plotlyjs_included and none of the
\* four strings.
C5_Witness ==
    /\ out_of = [title |-> title, style |-> style, head |-> head, body |-> body]
    /\ call.op = "add_plotly_figure"
    /\ _is_plotlyjs_included /\ ~pre._is_plotlyjs_included
    /\ body # <<>>

\* C6: add_table with no DataFrame, add_image_link with neither a str nor a Path,
\* add_plotly_figure with no Figure and add_image with an unsupported type raise
\* the InvalidArgument kind and leave every attribute, body and
\* _is_plotlyjs_included among them, as it was.
C6_InvalidArgumentBeforeMutation ==
    /\ (call.op = "add_table" /\ call.df.t # "DataFrame")
          => (raised = InvalidArgument /\ Doc = pre)
    /\ (call.op = "add_image_link" /\ call.image.t \notin {"str", "Path"})
          => (raised = InvalidArgument /\ Doc = pre)
    /\ (call.op = "add_plotly_figure" /\ call.fig.t # "Figure")
          => (raised = InvalidArgument /\ Doc = pre)
    /\ (call.op = "add_image"
          /\ call.image.t \notin {"ndarray", "PIL.Image", "Path", "str"})
          => (raised = InvalidArgument /\ Doc = pre)

\* add_plotly_figure was called with no Figure, asking for the inline runtime, on
\* a document with content and no runtime yet.
C6_Witness ==
    /\ call.op = "add_plotly_figure" /\ call.fig.t # "Figure"
    /\ call.include_plotlyjs
    /\ raised = InvalidArgument
    /\ body # <<>> /\ ~_is_plotlyjs_included

\* Whether _encode_image's validation let the ndarray of the last call through.
Validated == raised \notin {InvalidArgument, InvalidShape}

Falsy(x) == x \in {None, PyStr(""), PyInt(0)}

\* The <img> tag the last call appended.
LastTag == fragments[Len(fragments)]

\* Attribute attr (its name token, as emitted) is in tag exactly once, followed
\* by the formatted, non-empty value; quoted says whether the value is quoted.
Emitted(tag, attr, value, quoted) ==
    /\ Count(tag, attr) = 1
    /\ \A i \in Positions(tag, attr) :
          /\ i < Len(tag)
          /\ tag[i + 1] = Format(value)
          /\ tag[i + 1] # ""
          /\ quoted => (i + 2 <= Len(tag) /\ tag[i + 2] = "\"")

\* The attribute name tokens of tag are in the order of names.
InOrder(tag, names) ==
    \A a, b \in DOMAIN names :
       a < b => \A i \in Positions(tag, names[a]), j \in Positions(tag, names[b]) :
                   i < j

StyleStart == " style=\"border:1px solid #021a40; margin: 3px 3px"

\* C8: in the <img> tag add_image and add_image_link append, title, height and
\* width are each emitted exactly when the argument is not falsy (None, '' and 0
\* omit the attribute altogether), the attributes come in the order src, title,
\* height, width, style, and the style ends with '; image-rendering: pixelated'
\* exactly when pixelated is true.
C8_ImageTag ==
    (call.op \in {"add_image", "add_image_link"} /\ raised = "none") =>
       LET tag == LastTag
           n == Len(tag)
       IN
       /\ body = pre.body \o tag
       /\ tag[1] = "<img src=\"" /\ tag[3] = "\""
       /\ IF Falsy(call.title) THEN Count(tag, " title=\"") = 0
          ELSE Emitted(tag, " title=\"", call.title, TRUE)
       /\ IF Falsy(call.height) THEN Count(tag, " height=") = 0
          ELSE Emitted(tag, " height=", call.height, FALSE)
       /\ IF Falsy(call.width) THEN Count(tag, " width=") = 0
          ELSE Emitted(tag, " width=", call.width, FALSE)
       /\ Count(tag, StyleStart) = 1
       /\ InOrder(tag, <<"<img src=\"", " title=\"", " height=", " width=",
                         StyleStart>>)
       /\ tag[n] = "\">\n"
       /\ IF call.pixelated
          THEN tag[n - 1] = "; image-rendering: pixelated" /\ tag[n - 2] = StyleStart
          ELSE tag[n - 1] = StyleStart
               /\ Count(tag, "; image-rendering: pixelated") = 0

\* An image with a title and a height, a width of 0 and pixelated set.
C8_Witness ==
    /\ call.op = "add_image" /\ raised = "none"
    /\ call.title = PyStr("X") /\ call.height = PyInt(50)
    /\ call.width = PyInt(0) /\ call.pixelated
    /\ Count(LastTag, " title=\"") = 1 /\ Count(LastTag, " width=") = 0

\* The position of the <body> line in the text str(self) returns.
BodyLine(text) == CHOOSE i \in DOMAIN text : text[i] = "<body>\n"

\* C9: the text str(self) returns holds <title>T</title>, T the argument of the
\* last set_title call (the default title if there was none), before the body
\* section, and the body section is the fragments of the successful append calls
\* in call order with nothing between them.
C9_TitleThenFragments ==
    LET text == __str__
        b == BodyLine(text)
    IN
    /\ Count(text, "<body>\n") = 1
    /\ \E i \in 1..(b - 3) :
          /\ text[i] = "<title>"
          /\ text[i + 1] = title_set
          /\ text[i + 2] = "</title>\n"
    /\ SubSeq(text, b + 1, Len(text) - 2) = Flatten(fragments)
    /\ SubSeq(text, Len(text) - 1, Len(text)) = <<"</body>\n", "</html>\n">>
    /\ call.op = "__str__" => out = text

\* set_title("Report"), add_header("Results"), add_text("done") were called.
C9_Witness ==
    /\ title_set = "Report"
    /\ call.op = "add_text" /\ call.text = "done" /\ raised = "none"
    /\ Len(fragments) = 2
    /\ fragments[1] = <<"<", "h2", " style=\"text-align: ", "left", "\">",
                        "Results", "</", "h2", ">\n">>
    /\ Len(fragments[2]) = 9 /\ fragments[2][8] = "done"
    /\ body = fragments[1] \o fragments[2]

\* C10: for a fig that is a Figure, the mode passed to to_html is False when
\* _is_plotlyjs_included is True; True when it is False and inline was requested,
\* and it is True afterwards; 'cdn' when it is False and inline was not
\* requested, and it is still False afterwards, so that the next call requesting
\* inline inclusion passes True.
C10_ModeTable ==
    \A i \in DOMAIN plotly_log :
       LET e == plotly_log[i] IN
       e.is_figure =>
          /\ e.included_before =>
                (e.passed = PyBool(FALSE) /\ e.included_after)
          /\ (~e.included_before /\ e.include_plotlyjs) =>
                (e.passed = PyBool(TRUE) /\ e.included_after)
          /\ (~e.included_before /\ ~e.include_plotlyjs) =>
                /\ e.passed = PyStr("cdn")
                /\ ~e.included_after
                /\ \A j \in DOMAIN plotly_log :
                      (j = i + 1 /\ plotly_log[j].is_figure
                         /\ plotly_log[j].include_plotlyjs)
                         => plotly_log[j].passed = PyBool(TRUE)
          /\ (i = Len(plotly_log) /\ call.op = "add_plotly_figure")
                => _is_plotlyjs_included = e.included_after
          /\ i > 1 => e.included_before = plotly_log[i - 1].included_after

\* A call passed 'cdn', and the next call, requesting inline, passed True.
C10_Witness ==
    /\ Len(plotly_log) >= 2
    /\ plotly_log[1].passed = PyStr("cdn")
    /\ plotly_log[2].passed = PyBool(TRUE)
    /\ Count(body, RuntimeScript) = 1
    /\ _is_plotlyjs_included

====
